---- MODULE Spec2Model ----
(***************************************************************************)
(* Proof-of-existence pallet (pallets/poe/src/lib.rs).                     *)
(*                                                                         *)
(* The pallet keeps one storage map, Proofs, from a claim (Vec<u8>) to the *)
(* pair (owner, block number), and has three dispatchables: create_claim,  *)
(* revoke_claim and transfer_claim.  The host runtime supplies the origin  *)
(* of each call, the current block number and the event log.               *)
(*                                                                         *)
(* Each dispatchable is one action.  The variables last, preProofs,        *)
(* preEvents, nOk and scen are history variables: they record the last     *)
(* call, the storage and the event log it started from, the number of      *)
(* calls that returned Ok, and the progress of the end-to-end scenario.    *)
(* hist counts, per claim, the successful creates and revokes and keeps    *)
(* the block and the account that the successful calls gave the claim;     *)
(* accesses is the list of storage calls the last call made.               *)
(***************************************************************************)
EXTENDS Integers, Sequences, FiniteSets, TLC

VARIABLES Proofs, block_number, events, last, preProofs, preEvents, nOk, scen,
          hist, accesses

vars == <<Proofs, block_number, events, last, preProofs, preEvents, nOk, scen,
          hist, accesses>>

\* ---------------------------------------------------------------------------
\* Bounds of the model
\* ---------------------------------------------------------------------------

\* The block number runs from 0 to MaxBlock.
MaxBlock == 2

\* Calls are dispatched while the event log is shorter than MaxEvents.
MaxEvents == 2

\* In the scenario, calls are dispatched while the event log is shorter than this.
MaxScenarioEvents == 4

\* In the two-block runs, calls are dispatched while the event log is shorter than this.
MaxTwoBlockEvents == 3

\* ---------------------------------------------------------------------------
\* Types of the runtime
\* ---------------------------------------------------------------------------

\* T::AccountId: the accounts that sign calls.
AccountId == {"A", "B", "C"}

\* T::Origin: a call is signed by an account, or it is not signed.
Origin == {<<"Signed", a>> : a \in AccountId} \cup {<<"None">>}

\* The claim "deadbeef" as the bytes of its text.
deadbeef == <<100, 101, 97, 100, 98, 101, 101, 102>>

\* Vec<u8>: the claims of the model: the empty one and "deadbeef".
Claim == {<< >>, deadbeef}

\* The default of (T::AccountId, T::BlockNumber), which get returns for an absent key.
\* The default account is an account like the others (0 where AccountId is u64): it
\* can sign a call and be the dest of one.  Here it is A.
DefaultValue == <<"A", 0>>

\* The argument dest of a call that has none.
NoDest == "-"

\* ---------------------------------------------------------------------------
\* Storage map Proofs: a function whose domain is the set of stored keys
\* ---------------------------------------------------------------------------

contains_key(map, claim) == claim \in DOMAIN map

get(map, claim) == IF claim \in DOMAIN map THEN map[claim] ELSE DefaultValue

insert(map, claim, value) ==
    [k \in (DOMAIN map) \cup {claim} |-> IF k = claim THEN value ELSE map[k]]

remove(map, claim) == [k \in (DOMAIN map) \ {claim} |-> map[k]]

\* ---------------------------------------------------------------------------
\* Events and results
\* ---------------------------------------------------------------------------

ClaimCreated(who, claim) == <<"ClaimCreated", who, claim>>

ClaimRevoked(who, claim) == <<"ClaimRevoked", who, claim>>

ClaimTransfered(who, dest, claim) == <<"ClaimTransfered", who, dest, claim>>

deposit_event(log, event) == Append(log, event)

\* ensure_signed(origin): the signer of a signed origin, an error otherwise.
ensure_signed(origin) ==
    IF origin[1] = "Signed" THEN [ok |-> TRUE, who |-> origin[2]]
    ELSE [ok |-> FALSE, who |-> "BadOrigin"]

\* A dispatchable that returns Err(e) before its first write.
Err(e) == [result |-> e, Proofs |-> Proofs, events |-> events]

\* A dispatchable that returns Ok(()) with the storage and the event log it leaves.
Ok(map, log) == [result |-> "Ok", Proofs |-> map, events |-> log]

\* ---------------------------------------------------------------------------
\* Dispatchables
\* ---------------------------------------------------------------------------

\* create_claim storing the default block number instead of the current one.
create_claim_defaultBlock(origin, claim) ==
    LET sender == ensure_signed(origin) IN
    IF ~sender.ok THEN Err(sender.who)
    ELSE IF ~(~contains_key(Proofs, claim)) THEN Err("ProofAlreadyExist")
    ELSE Ok(insert(Proofs, claim, <<sender.who, DefaultValue[2]>>),
            deposit_event(events, ClaimCreated(sender.who, claim)))

\* create_claim without the check that the claim is not stored yet.
create_claim_overwrite(origin, claim) ==
    LET sender == ensure_signed(origin) IN
    IF ~sender.ok THEN Err(sender.who)
    ELSE Ok(insert(Proofs, claim, <<sender.who, block_number>>),
            deposit_event(events, ClaimCreated(sender.who, claim)))

\* create_claim writing the record before it checks that the claim is not stored yet.
create_claim_insertFirst(origin, claim) ==
    LET sender == ensure_signed(origin) IN
    IF ~sender.ok THEN Err(sender.who)
    ELSE IF ~(~contains_key(Proofs, claim))
         THEN [result |-> "ProofAlreadyExist",
               Proofs |-> insert(Proofs, claim, <<sender.who, block_number>>),
               events |-> events]
    ELSE Ok(insert(Proofs, claim, <<sender.who, block_number>>),
            deposit_event(events, ClaimCreated(sender.who, claim)))

\* create_claim returning the error of the other two dispatchables.
create_claim_wrongError(origin, claim) ==
    LET sender == ensure_signed(origin) IN
    IF ~sender.ok THEN Err(sender.who)
    ELSE IF ~(~contains_key(Proofs, claim)) THEN Err("ClaimNotExist")
    ELSE Ok(insert(Proofs, claim, <<sender.who, block_number>>),
            deposit_event(events, ClaimCreated(sender.who, claim)))

create_claim(origin, claim) ==
    LET sender == ensure_signed(origin) IN
    IF ~sender.ok THEN Err(sender.who)
    ELSE IF ~(~contains_key(Proofs, claim)) THEN Err("ProofAlreadyExist")
    ELSE Ok(insert(Proofs, claim, <<sender.who, block_number>>),
            deposit_event(events, ClaimCreated(sender.who, claim)))

\* revoke_claim without the check that the sender owns the claim.
revoke_claim_anyone(origin, claim) ==
    LET sender == ensure_signed(origin) IN
    IF ~sender.ok THEN Err(sender.who)
    ELSE IF ~contains_key(Proofs, claim) THEN Err("ClaimNotExist")
    ELSE Ok(remove(Proofs, claim),
            deposit_event(events, ClaimRevoked(sender.who, claim)))

\* revoke_claim reading the owner and checking it before it checks the key.
revoke_claim_ownerFirst(origin, claim) ==
    LET sender == ensure_signed(origin) IN
    IF ~sender.ok THEN Err(sender.who)
    ELSE LET owner == get(Proofs, claim)[1] IN
         IF ~(sender.who = owner) THEN Err("NotClaimOwner")
         ELSE IF ~contains_key(Proofs, claim) THEN Err("ClaimNotExist")
         ELSE Ok(remove(Proofs, claim),
                 deposit_event(events, ClaimRevoked(sender.who, claim)))

\* revoke_claim emitting its event without removing the claim.
revoke_claim_keeps(origin, claim) ==
    LET sender == ensure_signed(origin) IN
    IF ~sender.ok THEN Err(sender.who)
    ELSE IF ~contains_key(Proofs, claim) THEN Err("ClaimNotExist")
    ELSE LET owner == get(Proofs, claim)[1] IN
         IF ~(sender.who = owner) THEN Err("NotClaimOwner")
         ELSE Ok(Proofs, deposit_event(events, ClaimRevoked(sender.who, claim)))

\* revoke_claim removing every claim of the storage instead of its own.
revoke_claim_clearsAll(origin, claim) ==
    LET sender == ensure_signed(origin) IN
    IF ~sender.ok THEN Err(sender.who)
    ELSE IF ~contains_key(Proofs, claim) THEN Err("ClaimNotExist")
    ELSE LET owner == get(Proofs, claim)[1] IN
         IF ~(sender.who = owner) THEN Err("NotClaimOwner")
         ELSE Ok(<< >>, deposit_event(events, ClaimRevoked(sender.who, claim)))

revoke_claim(origin, claim) ==
    LET sender == ensure_signed(origin) IN
    IF ~sender.ok THEN Err(sender.who)
    ELSE IF ~contains_key(Proofs, claim) THEN Err("ClaimNotExist")
    ELSE LET owner == get(Proofs, claim)[1] IN
         IF ~(sender.who = owner) THEN Err("NotClaimOwner")
         ELSE Ok(remove(Proofs, claim),
                 deposit_event(events, ClaimRevoked(sender.who, claim)))

\* transfer_claim without the check that the sender owns the claim.
transfer_claim_anyone(origin, dest, claim) ==
    LET sender == ensure_signed(origin) IN
    IF ~sender.ok THEN Err(sender.who)
    ELSE IF ~contains_key(Proofs, claim) THEN Err("ClaimNotExist")
    ELSE LET blockNumber == get(Proofs, claim)[2]
         IN  Ok(insert(Proofs, claim, <<dest, blockNumber>>),
                deposit_event(events, ClaimTransfered(sender.who, dest, claim)))

\* transfer_claim storing the current block number instead of the stored one.
transfer_claim_restamps(origin, dest, claim) ==
    LET sender == ensure_signed(origin) IN
    IF ~sender.ok THEN Err(sender.who)
    ELSE IF ~contains_key(Proofs, claim) THEN Err("ClaimNotExist")
    ELSE LET owner == get(Proofs, claim)[1]
         IN  IF ~(sender.who = owner) THEN Err("NotClaimOwner")
             ELSE Ok(insert(Proofs, claim, <<dest, block_number>>),
                     deposit_event(events, ClaimTransfered(sender.who, dest, claim)))

\* transfer_claim emitting its event with sender and dest exchanged.
transfer_claim_swappedEvent(origin, dest, claim) ==
    LET sender == ensure_signed(origin) IN
    IF ~sender.ok THEN Err(sender.who)
    ELSE IF ~contains_key(Proofs, claim) THEN Err("ClaimNotExist")
    ELSE LET owner == get(Proofs, claim)[1]
             blockNumber == get(Proofs, claim)[2]
         IN  IF ~(sender.who = owner) THEN Err("NotClaimOwner")
             ELSE Ok(insert(Proofs, claim, <<dest, blockNumber>>),
                     deposit_event(events, ClaimTransfered(dest, sender.who, claim)))

\* transfer_claim writing back the record it read, with the owner it read.
transfer_claim_keepsOwner(origin, dest, claim) ==
    LET sender == ensure_signed(origin) IN
    IF ~sender.ok THEN Err(sender.who)
    ELSE IF ~contains_key(Proofs, claim) THEN Err("ClaimNotExist")
    ELSE LET owner == get(Proofs, claim)[1]
             blockNumber == get(Proofs, claim)[2]
         IN  IF ~(sender.who = owner) THEN Err("NotClaimOwner")
             ELSE Ok(insert(Proofs, claim, <<owner, blockNumber>>),
                     deposit_event(events, ClaimTransfered(sender.who, dest, claim)))

\* transfer_claim without the check that the claim is stored.
transfer_claim_noKeyCheck(origin, dest, claim) ==
    LET sender == ensure_signed(origin) IN
    IF ~sender.ok THEN Err(sender.who)
    ELSE LET owner == get(Proofs, claim)[1]
             blockNumber == get(Proofs, claim)[2]
         IN  IF ~(sender.who = owner) THEN Err("NotClaimOwner")
             ELSE Ok(insert(Proofs, claim, <<dest, blockNumber>>),
                     deposit_event(events, ClaimTransfered(sender.who, dest, claim)))

\* transfer_claim refusing a transfer to the sender.
transfer_claim_noSelf(origin, dest, claim) ==
    LET sender == ensure_signed(origin) IN
    IF ~sender.ok THEN Err(sender.who)
    ELSE IF ~contains_key(Proofs, claim) THEN Err("ClaimNotExist")
    ELSE LET owner == get(Proofs, claim)[1]
             blockNumber == get(Proofs, claim)[2]
         IN  IF ~(sender.who = owner) THEN Err("NotClaimOwner")
             ELSE IF dest = sender.who THEN Err("NotClaimOwner")
             ELSE Ok(insert(Proofs, claim, <<dest, blockNumber>>),
                     deposit_event(events, ClaimTransfered(sender.who, dest, claim)))

transfer_claim(origin, dest, claim) ==
    LET sender == ensure_signed(origin) IN
    IF ~sender.ok THEN Err(sender.who)
    ELSE IF ~contains_key(Proofs, claim) THEN Err("ClaimNotExist")
    ELSE LET owner == get(Proofs, claim)[1]
             blockNumber == get(Proofs, claim)[2]
         IN  IF ~(sender.who = owner) THEN Err("NotClaimOwner")
             ELSE Ok(insert(Proofs, claim, <<dest, blockNumber>>),
                     deposit_event(events, ClaimTransfered(sender.who, dest, claim)))

\* ---------------------------------------------------------------------------
\* The end-to-end scenario, followed by the history variable scen
\* ---------------------------------------------------------------------------

Scenario ==
    << [op |-> "create_claim", origin |-> <<"Signed", "A">>, dest |-> NoDest,
        claim |-> deadbeef, now |-> 1],
       [op |-> "transfer_claim", origin |-> <<"Signed", "A">>, dest |-> "B",
        claim |-> deadbeef, now |-> 5],
       [op |-> "revoke_claim", origin |-> <<"Signed", "B">>, dest |-> NoDest,
        claim |-> deadbeef, now |-> 9],
       [op |-> "create_claim", origin |-> <<"Signed", "C">>, dest |-> NoDest,
        claim |-> deadbeef, now |-> 10] >>

\* scen = k in 1..4: the calls so far are exactly the first k steps of Scenario.
ScenOff == Len(Scenario) + 1

ScenNext(call) ==
    IF scen < Len(Scenario) /\ call = Scenario[scen + 1] THEN scen + 1 ELSE ScenOff

\* ---------------------------------------------------------------------------
\* The storage calls a dispatchable makes, in the order of its statements
\* ---------------------------------------------------------------------------

\* One call of fn on the key claim; present tells whether the key is stored then.
\* Every dispatchable writes once, as its last storage call, so the storage at
\* each of its calls is the storage it started from.
Access(fn, claim) ==
    [fn |-> fn, key |-> claim, present |-> contains_key(Proofs, claim)]

\* create_claim_calls reading the storage before it checks the origin.
create_claim_calls_checkFirst(origin, claim) ==
    LET sender == ensure_signed(origin) IN
    IF ~(~contains_key(Proofs, claim)) THEN <<Access("contains_key", claim)>>
    ELSE IF ~sender.ok THEN <<Access("contains_key", claim)>>
    ELSE <<Access("contains_key", claim), Access("insert", claim)>>

create_claim_calls(origin, claim) ==
    LET sender == ensure_signed(origin) IN
    IF ~sender.ok THEN << >>
    ELSE IF ~(~contains_key(Proofs, claim)) THEN <<Access("contains_key", claim)>>
    ELSE <<Access("contains_key", claim), Access("insert", claim)>>

\* revoke_claim_calls reading the owner before it checks the key.
revoke_claim_calls_getFirst(origin, claim) ==
    LET sender == ensure_signed(origin) IN
    IF ~sender.ok THEN << >>
    ELSE LET owner == get(Proofs, claim)[1] IN
         IF ~(sender.who = owner) THEN <<Access("get", claim)>>
         ELSE IF ~contains_key(Proofs, claim)
              THEN <<Access("get", claim), Access("contains_key", claim)>>
         ELSE <<Access("get", claim), Access("contains_key", claim),
                Access("remove", claim)>>

revoke_claim_calls(origin, claim) ==
    LET sender == ensure_signed(origin) IN
    IF ~sender.ok THEN << >>
    ELSE IF ~contains_key(Proofs, claim) THEN <<Access("contains_key", claim)>>
    ELSE LET owner == get(Proofs, claim)[1] IN
         IF ~(sender.who = owner)
         THEN <<Access("contains_key", claim), Access("get", claim)>>
         ELSE <<Access("contains_key", claim), Access("get", claim),
                Access("remove", claim)>>

transfer_claim_calls(origin, claim) ==
    LET sender == ensure_signed(origin) IN
    IF ~sender.ok THEN << >>
    ELSE IF ~contains_key(Proofs, claim) THEN <<Access("contains_key", claim)>>
    ELSE LET owner == get(Proofs, claim)[1] IN
         IF ~(sender.who = owner)
         THEN <<Access("contains_key", claim), Access("get", claim)>>
         ELSE <<Access("contains_key", claim), Access("get", claim),
                Access("insert", claim)>>

\* The storage calls of the call op(origin, .., claim).
StorageCalls(op, origin, claim) ==
    CASE op = "create_claim" -> create_claim_calls(origin, claim)
      [] op = "revoke_claim" -> revoke_claim_calls(origin, claim)
      [] op = "transfer_claim" -> transfer_claim_calls(origin, claim)

\* ---------------------------------------------------------------------------
\* The history of the successful calls, per claim
\* ---------------------------------------------------------------------------

\* created, revoked: the numbers of successful create_claim and revoke_claim calls.
\* createdAt: the block of the last successful create_claim, as a one-element
\* sequence, empty before it and after a revoke_claim succeeds.
\* givenTo: the sender of that create_claim, or the dest of the last successful
\* transfer_claim since (a transfer_claim with no create_claim before it gives the
\* claim to nobody).
NoHist ==
    [created |-> [k \in Claim |-> 0], revoked |-> [k \in Claim |-> 0],
     createdAt |-> [k \in Claim |-> << >>], givenTo |-> [k \in Claim |-> "none"]]

HistNext(op, origin, dest, claim, result) ==
    IF result # "Ok" THEN hist
    ELSE CASE op = "create_claim" ->
                [hist EXCEPT !.created[claim] = @ + 1,
                             !.createdAt[claim] = <<block_number>>,
                             !.givenTo[claim] = origin[2]]
           [] op = "revoke_claim" ->
                [hist EXCEPT !.revoked[claim] = @ + 1,
                             !.createdAt[claim] = << >>,
                             !.givenTo[claim] = "none"]
           [] op = "transfer_claim" ->
                IF hist.createdAt[claim] = << >> THEN hist
                ELSE [hist EXCEPT !.givenTo[claim] = dest]

\* ---------------------------------------------------------------------------
\* The state machine
\* ---------------------------------------------------------------------------

NoCall == [op |-> "none", origin |-> <<"None">>, dest |-> NoDest, claim |-> << >>,
           now |-> 0, result |-> "none"]

Init ==
    /\ Proofs = << >>
    /\ block_number = 0
    /\ events = << >>
    /\ last = NoCall
    /\ preProofs = << >>
    /\ preEvents = << >>
    /\ nOk = 0
    /\ scen = 0
    /\ hist = NoHist
    /\ accesses = << >>

\* The runtime dispatches one call: out is what the dispatchable returns and leaves.
Dispatch(op, origin, dest, claim, out) ==
    /\ Proofs' = out.Proofs
    /\ events' = out.events
    /\ last' = [op |-> op, origin |-> origin, dest |-> dest, claim |-> claim,
                now |-> block_number, result |-> out.result]
    /\ preProofs' = Proofs
    /\ preEvents' = events
    /\ nOk' = IF out.result = "Ok" THEN nOk + 1 ELSE nOk
    /\ scen' = ScenNext([op |-> op, origin |-> origin, dest |-> dest, claim |-> claim,
                         now |-> block_number])
    /\ hist' = HistNext(op, origin, dest, claim, out.result)
    /\ accesses' = StorageCalls(op, origin, claim)
    /\ UNCHANGED block_number

CreateClaimOn(claims) ==
    \E origin \in Origin, claim \in claims :
        Dispatch("create_claim", origin, NoDest, claim, create_claim(origin, claim))

RevokeClaimOn(claims) ==
    \E origin \in Origin, claim \in claims :
        Dispatch("revoke_claim", origin, NoDest, claim, revoke_claim(origin, claim))

TransferClaimOn(claims) ==
    \E origin \in Origin, dest \in AccountId, claim \in claims :
        Dispatch("transfer_claim", origin, dest, claim,
                 transfer_claim(origin, dest, claim))

\* The host starts a later block, one of blocks.
AdvanceBlockTo(blocks) ==
    /\ \E n \in blocks : n > block_number /\ block_number' = n
    /\ UNCHANGED <<Proofs, events, last, preProofs, preEvents, nOk, scen,
                   hist, accesses>>

\* Any call on any claim, in any block up to MaxBlock.
CreateClaim == Len(events) < MaxEvents /\ CreateClaimOn(Claim)

RevokeClaim == Len(events) < MaxEvents /\ RevokeClaimOn(Claim)

TransferClaim == Len(events) < MaxEvents /\ TransferClaimOn(Claim)

AdvanceBlock == AdvanceBlockTo(0..MaxBlock)

Next == CreateClaim \/ RevokeClaim \/ TransferClaim \/ AdvanceBlock

Spec == Init /\ [][Next]_vars

\* Any call on the claim of the scenario, in the blocks of the scenario.
ScenarioBlocks == {Scenario[i].now : i \in 1..Len(Scenario)}

ScenarioCreateClaim == Len(events) < MaxScenarioEvents /\ CreateClaimOn({deadbeef})

ScenarioRevokeClaim == Len(events) < MaxScenarioEvents /\ RevokeClaimOn({deadbeef})

ScenarioTransferClaim == Len(events) < MaxScenarioEvents /\ TransferClaimOn({deadbeef})

ScenarioAdvanceBlock == AdvanceBlockTo(ScenarioBlocks)

ScenarioNext ==
    \/ ScenarioCreateClaim
    \/ ScenarioRevokeClaim
    \/ ScenarioTransferClaim
    \/ ScenarioAdvanceBlock

ScenarioSpec == Init /\ [][ScenarioNext]_vars

\* Any call on any claim, in the first two blocks, with a longer event log.
TwoBlockCreateClaim == Len(events) < MaxTwoBlockEvents /\ CreateClaimOn(Claim)

TwoBlockRevokeClaim == Len(events) < MaxTwoBlockEvents /\ RevokeClaimOn(Claim)

TwoBlockTransferClaim == Len(events) < MaxTwoBlockEvents /\ TransferClaimOn(Claim)

TwoBlockAdvanceBlock == AdvanceBlockTo({0, 1})

TwoBlockNext ==
    \/ TwoBlockCreateClaim
    \/ TwoBlockRevokeClaim
    \/ TwoBlockTransferClaim
    \/ TwoBlockAdvanceBlock

TwoBlockSpec == Init /\ [][TwoBlockNext]_vars

\* ---------------------------------------------------------------------------
\* What the last call was and what it started from
\* ---------------------------------------------------------------------------

\* The last call was op, made by a signed origin.
SignedCall(op) == last.op = op /\ last.origin[1] = "Signed"

\* The signer of the last call.
Caller == last.origin[2]

\* The last call returned an error.
Failed == last.result \notin {"Ok", "none"}

\* The claim of the last call was stored when the call started.
WasClaimed == last.claim \in DOMAIN preProofs

\* The owner of the claim of the last call when the call started.
PreOwner == preProofs[last.claim][1]

\* The block number stored for the claim of the last call when the call started.
PreBlock == preProofs[last.claim][2]

\* The event a successful call of the kind of the last call emits.
ExpectedEvent ==
    CASE last.op = "create_claim" -> ClaimCreated(Caller, last.claim)
      [] last.op = "revoke_claim" -> ClaimRevoked(Caller, last.claim)
      [] last.op = "transfer_claim" -> ClaimTransfered(Caller, last.dest, last.claim)

\* ---------------------------------------------------------------------------
\* Claims
\* ---------------------------------------------------------------------------

\* C1: create_claim by a signed caller on a claim that is not stored succeeds,
\* and afterwards the storage maps the claim to (caller, block number at the call).
C1_CreateStoresCallerAndNow ==
    (SignedCall("create_claim") /\ ~WasClaimed) =>
        /\ last.result = "Ok"
        /\ last.claim \in DOMAIN Proofs
        /\ Proofs[last.claim] = <<Caller, last.now>>

\* A create of the empty claim succeeded in a block after the first.
C1_Witness ==
    /\ SignedCall("create_claim") /\ ~WasClaimed
    /\ last.claim = << >> /\ last.now > 0 /\ last.result = "Ok"

\* C2: create_claim on a stored claim, by its owner or by anyone else, fails with
\* ProofAlreadyExist and the stored owner and block number stay as they were.
C2_CreateOnClaimedFails ==
    (SignedCall("create_claim") /\ WasClaimed) =>
        /\ last.result = "ProofAlreadyExist"
        /\ last.claim \in DOMAIN Proofs
        /\ Proofs[last.claim] = preProofs[last.claim]

\* The owner created the claim again in a later block and was refused.
C2_Witness ==
    /\ SignedCall("create_claim") /\ WasClaimed
    /\ Caller = PreOwner /\ last.now # PreBlock
    /\ last.result = "ProofAlreadyExist"

\* C3: revoke_claim on a stored claim by a caller who is not its owner fails with
\* NotClaimOwner and the storage is unchanged.
C3_RevokeByOtherFails ==
    (SignedCall("revoke_claim") /\ WasClaimed /\ Caller # PreOwner) =>
        /\ last.result = "NotClaimOwner"
        /\ Proofs = preProofs

\* Someone else than the owner revoked a stored claim and was refused.
C3_Witness ==
    /\ SignedCall("revoke_claim") /\ WasClaimed /\ Caller # PreOwner
    /\ last.result = "NotClaimOwner"

\* C4: revoke_claim and transfer_claim on a claim that is not stored fail with
\* ClaimNotExist, not with NotClaimOwner, and the claim stays absent.
C4_AbsentFailsClaimNotExist ==
    ((SignedCall("revoke_claim") \/ SignedCall("transfer_claim")) /\ ~WasClaimed) =>
        /\ last.result = "ClaimNotExist"
        /\ last.claim \notin DOMAIN Proofs

\* A transfer of an absent claim was refused while another claim was stored.
C4_Witness ==
    /\ SignedCall("transfer_claim") /\ ~WasClaimed
    /\ DOMAIN preProofs # {}
    /\ last.result = "ClaimNotExist"

\* C5: transfer_claim on a stored claim by a caller who is not its owner fails
\* with NotClaimOwner for every dest, and the stored record is unchanged.
C5_TransferByOtherFails ==
    (SignedCall("transfer_claim") /\ WasClaimed /\ Caller # PreOwner) =>
        /\ last.result = "NotClaimOwner"
        /\ last.claim \in DOMAIN Proofs
        /\ Proofs[last.claim] = preProofs[last.claim]

\* Someone else than the owner transferred a stored claim to its owner and was refused.
C5_Witness ==
    /\ SignedCall("transfer_claim") /\ WasClaimed /\ Caller # PreOwner
    /\ last.dest = PreOwner
    /\ last.result = "NotClaimOwner"

\* C6: revoke_claim by the owner succeeds, removes the claim from the storage and
\* emits ClaimRevoked(owner, claim).
C6_RevokeByOwnerRemoves ==
    (SignedCall("revoke_claim") /\ WasClaimed /\ Caller = PreOwner) =>
        /\ last.result = "Ok"
        /\ last.claim \notin DOMAIN Proofs
        /\ events = Append(preEvents, ClaimRevoked(Caller, last.claim))

\* The owner revoked a stored claim.
C6_Witness ==
    /\ SignedCall("revoke_claim") /\ WasClaimed /\ Caller = PreOwner
    /\ last.result = "Ok"

\* C7: transfer_claim by the owner succeeds and leaves the record (dest, r), with r
\* the block number stored before, not the block number at the transfer.
C7_TransferKeepsBlock ==
    (SignedCall("transfer_claim") /\ WasClaimed /\ Caller = PreOwner) =>
        /\ last.result = "Ok"
        /\ last.claim \in DOMAIN Proofs
        /\ Proofs[last.claim] = <<last.dest, PreBlock>>

\* The owner transferred a claim to another account in a later block than its creation.
C7_Witness ==
    /\ SignedCall("transfer_claim") /\ WasClaimed /\ Caller = PreOwner
    /\ last.dest # Caller /\ last.now # PreBlock
    /\ last.result = "Ok"

\* C8: a successful call appends exactly its own event to the event log, a failing
\* call appends none, and the log is as long as the number of successful calls.
C8_OneEventPerSuccess ==
    /\ last.result = "Ok" => events = Append(preEvents, ExpectedEvent)
    /\ (last.result = "Ok" /\ last.op = "transfer_claim") => Caller = PreOwner
    /\ Failed => events = preEvents
    /\ Len(events) = nOk

\* A transfer succeeded after another successful call.
C8_Witness ==
    /\ last.op = "transfer_claim" /\ last.result = "Ok"
    /\ last.dest # Caller
    /\ nOk = 2

\* C9: a call that returns an error leaves the storage and the event log as they
\* were when it started.
C9_FailureChangesNothing ==
    Failed => (Proofs = preProofs /\ events = preEvents)

\* A call was refused while a claim was stored and an event was in the log.
C9_Witness ==
    /\ Failed /\ last.result = "NotClaimOwner"
    /\ DOMAIN preProofs # {} /\ Len(preEvents) > 0

\* C10: the four steps of the scenario all succeed and leave the storage
\* {deadbeef:(A,1)}, {deadbeef:(B,1)}, {} and {deadbeef:(C,10)}.
C10_Scenario ==
    /\ scen \in 1..Len(Scenario) => last.result = "Ok"
    /\ scen = 1 => Proofs = [k \in {deadbeef} |-> <<"A", 1>>]
    /\ scen = 2 => Proofs = [k \in {deadbeef} |-> <<"B", 1>>]
    /\ scen = 3 => DOMAIN Proofs = {}
    /\ scen = 4 => Proofs = [k \in {deadbeef} |-> <<"C", 10>>]

\* The four steps of the scenario were made.
C10_Witness == scen = 4 /\ block_number = 10 /\ Len(events) = 4

\* The record stored for claim k in map, or the empty tuple for an unclaimed one.
Entry(map, k) == IF k \in DOMAIN map THEN map[k] ELSE << >>

\* C11: a claim goes from unclaimed to claimed only by a successful create_claim on
\* it, from claimed to unclaimed only by a successful revoke_claim on it, and its
\* record changes only by a successful transfer_claim on it, which keeps the block
\* number; a failing call and a call on another claim leave it as it was.
C11_OnlyListedTransitions ==
    /\ \A k \in Claim :
        /\ (k \notin DOMAIN preProofs /\ k \in DOMAIN Proofs) =>
               (SignedCall("create_claim") /\ last.claim = k /\ last.result = "Ok")
        /\ (k \in DOMAIN preProofs /\ k \notin DOMAIN Proofs) =>
               (SignedCall("revoke_claim") /\ last.claim = k /\ last.result = "Ok")
        /\ (k \in DOMAIN preProofs /\ k \in DOMAIN Proofs /\ Proofs[k] # preProofs[k]) =>
               /\ SignedCall("transfer_claim") /\ last.claim = k /\ last.result = "Ok"
               /\ Proofs[k][2] = preProofs[k][2]
        /\ (Failed \/ last.claim # k) => Entry(Proofs, k) = Entry(preProofs, k)
    /\ (last.result = "Ok" /\ last.op = "create_claim") =>
           (~WasClaimed /\ last.claim \in DOMAIN Proofs)
    /\ (last.result = "Ok" /\ last.op = "revoke_claim") =>
           (WasClaimed /\ last.claim \notin DOMAIN Proofs)
    /\ (last.result = "Ok" /\ last.op = "transfer_claim") =>
           (WasClaimed /\ last.claim \in DOMAIN Proofs /\ Proofs[last.claim][2] = PreBlock)

\* A transfer in a later block than the creation changed the owner of a claim.
C11_Witness ==
    /\ last.op = "transfer_claim" /\ last.result = "Ok"
    /\ Proofs[last.claim][1] # PreOwner
    /\ last.now > PreBlock

\* C12: per claim, the successful creates are at most one more than the successful
\* revokes and never fewer, and they are one more exactly when the claim is stored.
C12_AtMostOneClaim ==
    \A k \in Claim :
        LET d == hist.created[k] - hist.revoked[k] IN
        /\ d \in {0, 1}
        /\ d = 1 <=> k \in DOMAIN Proofs

\* A claim was created, revoked and created again.
C12_Witness ==
    /\ hist.created[deadbeef] = 2 /\ hist.revoked[deadbeef] = 1
    /\ deadbeef \in DOMAIN Proofs

\* The errors the interface lists for each dispatchable.
ListedErrors ==
    CASE last.op = "create_claim" -> {"ProofAlreadyExist"}
      [] last.op = "revoke_claim" -> {"ClaimNotExist", "NotClaimOwner"}
      [] last.op = "transfer_claim" -> {"ClaimNotExist", "NotClaimOwner"}

\* C13 as stated: every failing call fails with an error listed for its dispatchable.
C13_OnlyListedErrors == Failed => last.result \in ListedErrors

\* C13, amended: a failing call with a signed origin fails with an error listed for
\* its dispatchable; a call whose origin is not signed fails with BadOrigin.
C13_ListedErrorsOrBadOrigin ==
    /\ (Failed /\ last.origin[1] = "Signed") => last.result \in ListedErrors
    /\ (Failed /\ last.origin[1] # "Signed") => last.result = "BadOrigin"

\* A signed create_claim failed on a stored claim.
C13_Witness ==
    /\ SignedCall("create_claim") /\ WasClaimed /\ Failed

\* C14: for every stored claim, the stored block number is the block of the last
\* successful create_claim on it, whatever transfers and failing calls came since
\* and whatever the block number is now.
C14_BlockSetAtCreation ==
    \A k \in DOMAIN Proofs : hist.createdAt[k] = <<Proofs[k][2]>>

\* A claim was transferred in a later block than the one it was created in.
C14_Witness ==
    /\ last.op = "transfer_claim" /\ last.result = "Ok"
    /\ hist.createdAt[last.claim] # << >>
    /\ last.now > hist.createdAt[last.claim][1]
    /\ block_number > last.now

\* C15: for every stored claim, the owner is the sender of the last successful
\* create_claim on it or the dest of the last successful transfer_claim since; it
\* is an account a call supplied, and no call read a record for an absent key.
C15_OwnerFromCaller ==
    /\ \A k \in DOMAIN Proofs :
        /\ Proofs[k][1] = hist.givenTo[k]
        /\ Proofs[k][1] \in AccountId
    /\ \A i \in 1..Len(accesses) : accesses[i].fn = "get" => accesses[i].present

\* A claim is owned by the dest of a transfer, another account than its creator.
C15_Witness ==
    /\ last.op = "transfer_claim" /\ last.result = "Ok"
    /\ last.dest # Caller
    /\ Proofs[last.claim][1] = last.dest

\* The last event of log about claim k, or the empty tuple.
LastEventOn(log, k) ==
    LET on == {i \in 1..Len(log) : log[i][Len(log[i])] = k} IN
    IF on = {} THEN << >> ELSE log[CHOOSE i \in on : \A j \in on : j <= i]

\* The last call was a revoke_claim or a transfer_claim of the account that gave the
\* claim away to another account in the last successful call on the claim before.
ByPreviousOwner ==
    /\ SignedCall("revoke_claim") \/ SignedCall("transfer_claim")
    /\ LET e == LastEventOn(preEvents, last.claim) IN
       /\ e # << >>
       /\ e[1] = "ClaimTransfered"
       /\ e[2] = Caller
       /\ e[3] # Caller

\* C16: the record of a stored claim changes or disappears only in a revoke_claim
\* or transfer_claim on that claim whose sender is the owner stored before the
\* call; the account that transferred a claim to another one is refused when it
\* revokes or transfers the claim afterwards.
C16_OnlyOwnerChanges ==
    /\ \A k \in DOMAIN preProofs :
           Entry(Proofs, k) # preProofs[k] =>
               /\ SignedCall("revoke_claim") \/ SignedCall("transfer_claim")
               /\ last.claim = k
               /\ Caller = preProofs[k][1]
    /\ ByPreviousOwner => (last.result = "NotClaimOwner" /\ Proofs = preProofs)

\* The account that transferred the claim away tried to transfer it again.
C16_Witness ==
    /\ ByPreviousOwner /\ last.op = "transfer_claim"
    /\ last.result = "NotClaimOwner"

\* C17: a call makes get or remove on a key only when the key is stored, and only
\* after contains_key on that key returned true in the same call.
C17_GetRemoveAfterContains ==
    \A i \in 1..Len(accesses) :
        accesses[i].fn \in {"get", "remove"} =>
            /\ accesses[i].present
            /\ \E j \in 1..(i - 1) :
                   /\ accesses[j].fn = "contains_key"
                   /\ accesses[j].key = accesses[i].key
                   /\ accesses[j].present

\* A revoke_claim read the record of its claim and removed it.
C17_Witness ==
    /\ last.op = "revoke_claim" /\ last.result = "Ok"
    /\ \E i, j \in 1..Len(accesses) :
           accesses[i].fn = "get" /\ accesses[j].fn = "remove"

\* C18: a call leaves the record of every claim but its own as it was, stored or
\* not, and it leaves the block number as it was.
C18_OtherClaimsUntouched ==
    [][ /\ (last' # last \/ Proofs' # Proofs \/ events' # events) =>
               block_number' = block_number
        /\ block_number' = block_number =>
               \A g \in Claim \ {last'.claim} : Entry(Proofs', g) = Entry(Proofs, g)
      ]_vars

\* A claim was revoked while another claim was stored, and is stored still.
C18_Witness ==
    /\ last.op = "revoke_claim" /\ last.result = "Ok"
    /\ \E g \in Claim \ {last.claim} : g \in DOMAIN preProofs /\ g \in DOMAIN Proofs

\* C19: a transfer_claim of the owner to itself succeeds, leaves the record as it
\* was and emits ClaimTransfered(owner, owner, claim).
C19_SelfTransfer ==
    (SignedCall("transfer_claim") /\ WasClaimed /\ Caller = PreOwner
        /\ last.dest = Caller) =>
        /\ last.result = "Ok"
        /\ Proofs = preProofs
        /\ Proofs[last.claim] = <<Caller, PreBlock>>
        /\ events = Append(preEvents, ClaimTransfered(Caller, Caller, last.claim))

\* The owner transferred a claim to itself in a later block than its creation.
C19_Witness ==
    /\ SignedCall("transfer_claim") /\ WasClaimed /\ Caller = PreOwner
    /\ last.dest = Caller /\ last.now > PreBlock
    /\ last.result = "Ok" /\ Proofs = preProofs

\* C20: a call whose origin is not signed returns an error without a storage call:
\* it reads and writes nothing and emits no event, whether its claim is stored or not.
C20_UnsignedRejectedFirst ==
    (last.op # "none" /\ last.origin[1] # "Signed") =>
        /\ Failed
        /\ accesses = << >>
        /\ Proofs = preProofs
        /\ events = preEvents

\* A create_claim that was not signed was refused on a stored claim.
C20_Witness ==
    /\ last.op = "create_claim" /\ last.origin[1] # "Signed"
    /\ WasClaimed /\ Failed

====
